---- MODULE Spec2Model ----
(***************************************************************************)
(* A model of ads-papers-rsaa.py: the affiliation matcher, the summary     *)
(* formatter, the record store and the monthly digest pipeline.            *)
(*                                                                         *)
(* Python strings are sequences of one-character strings, so that          *)
(* replace, split, lower, upper, strip and the substring test `in` are     *)
(* computed character by character, as the interpreter computes them.      *)
(* Python list indices are 0-based; a sequence position p here is the      *)
(* Python index p - 1.                                                     *)
(***************************************************************************)
EXTENDS Integers, Sequences, FiniteSets, TLC

VARIABLES
    \* ---- the pipeline (the module-level script)
    pc,               \* position of the running script
    disk,             \* records.csv: whether it exists, and its rows
    lunations,        \* the digest files: <<year, month>> -> existence and entries
    ads,              \* the external database: the articles a query can return
    clock,            \* the wall clock read by datetime.now()
    records,          \* the in-memory record table
    year, month,      \* the resolved query window
    articles,         \* what the search returned, in arrival order
    i,                \* how many of the returned articles were examined
    new_articles,     \* the accepted (article, matching_authors) pairs
    matching_authors, \* the loop-local list of the last article matched
    executive_summary,\* the rendered digest entries
    loaded,           \* history: the table as this run loaded it
    rerun,            \* history: this run repeats a completed run unchanged
    \* ---- the pure functions, applied to drawn inputs
    m_aff, m_out,     \* matching_author's input and <<its result>> once applied
    f_article, f_long, f_out  \* formatted_summary's inputs and <<its result>>

pipevars == <<pc, disk, lunations, ads, clock, records, year, month, articles,
              i, new_articles, matching_authors, executive_summary, loaded, rerun>>
matchvars == <<m_aff, m_out>>
fmtvars == <<f_article, f_long, f_out>>
vars == <<pipevars, matchvars, fmtvars>>

(***************************************************************************)
(* Strings                                                                 *)
(***************************************************************************)
LowerAlpha == <<"a","b","c","d","e","f","g","h","i","j","k","l","m",
                "n","o","p","q","r","s","t","u","v","w","x","y","z">>
UpperAlpha == <<"A","B","C","D","E","F","G","H","I","J","K","L","M",
                "N","O","P","Q","R","S","T","U","V","W","X","Y","Z">>

\* str.lower() on one character
LowerChar(c) ==
    IF \E k \in 1..26 : UpperAlpha[k] = c
    THEN LowerAlpha[CHOOSE k \in 1..26 : UpperAlpha[k] = c]
    ELSE c

\* str.upper() on one character
UpperChar(c) ==
    IF \E k \in 1..26 : LowerAlpha[k] = c
    THEN UpperAlpha[CHOOSE k \in 1..26 : LowerAlpha[k] = c]
    ELSE c

Lower(s) == [k \in 1..Len(s) |-> LowerChar(s[k])]
Upper(s) == [k \in 1..Len(s) |-> UpperChar(s[k])]

\* s.startswith(t)
StartsWith(s, t) == Len(s) >= Len(t) /\ SubSeq(s, 1, Len(t)) = t

\* t in s
Contains(s, t) ==
    \E k \in 1..(Len(s) - Len(t) + 1) : SubSeq(s, k, k + Len(t) - 1) = t

\* s.replace(old, new), old non-empty: leftmost non-overlapping occurrences
RECURSIVE Replace(_, _, _)
Replace(s, old, new) ==
    IF s = <<>> THEN <<>>
    ELSE IF StartsWith(s, old)
         THEN new \o Replace(SubSeq(s, Len(old) + 1, Len(s)), old, new)
         ELSE <<Head(s)>> \o Replace(Tail(s), old, new)

\* s.split(sep) for a one-character sep: always at least one piece
RECURSIVE Split(_, _)
Split(s, sep) ==
    IF \A k \in 1..Len(s) : s[k] # sep THEN <<s>>
    ELSE LET p == CHOOSE k \in 1..Len(s) :
                      s[k] = sep /\ \A q \in 1..(k - 1) : s[q] # sep
         IN  <<SubSeq(s, 1, p - 1)>> \o Split(SubSeq(s, p + 1, Len(s)), sep)

\* s.strip(): leading and trailing blanks removed
RECURSIVE LStrip(_)
LStrip(s) == IF s # <<>> /\ Head(s) = " " THEN LStrip(Tail(s)) ELSE s
RECURSIVE RStrip(_)
RStrip(s) ==
    IF s # <<>> /\ s[Len(s)] = " " THEN RStrip(SubSeq(s, 1, Len(s) - 1)) ELSE s
Strip(s) == RStrip(LStrip(s))

\* sep.join(parts); the parts lo..hi are joined half by half
RECURSIVE JoinRange(_, _, _, _)
JoinRange(sep, parts, lo, hi) ==
    IF lo = hi THEN parts[lo]
    ELSE LET mid == (lo + hi) \div 2
         IN  JoinRange(sep, parts, lo, mid) \o sep \o JoinRange(sep, parts, mid + 1, hi)
Join(sep, parts) ==
    IF parts = <<>> THEN <<>> ELSE JoinRange(sep, parts, 1, Len(parts))

\* str(n) for n >= 0
Digits == <<"0","1","2","3","4","5","6","7","8","9">>
RECURSIVE Dec(_)
Dec(n) == IF n < 10 THEN <<Digits[n + 1]>>
          ELSE Dec(n \div 10) \o <<Digits[(n % 10) + 1]>>

(***************************************************************************)
(* The affiliation matcher                                                 *)
(***************************************************************************)
Amp == <<"&">>
AmpEntity == <<"&","a","m","p",";">>
Astronomy == <<"a","s","t","r","o","n","o","m","y">>
Postcode == <<"2","6","1","1">>

\* aff.replace("&amp;", "&"), then per ";"-piece: commas and colons
\* removed, lowercased, stripped
StripOne(ea) == Strip(Lower(Replace(Replace(ea, <<",">>, <<>>), <<":">>, <<>>)))

strip_affiliations(aff) ==
    LET pieces == Split(Replace(aff, AmpEntity, Amp), ";")
    IN  [k \in 1..Len(pieces) |-> StripOne(pieces[k])]

\* the test of one stripped sub-affiliation
IsRSAA(sa) == Contains(sa, Astronomy) /\ Contains(sa, Postcode)

\* faulty variant: one keyword is enough (or in place of and)
matching_author_any_keyword(author, aff) ==
    LET sas == strip_affiliations(aff)
        hits == {k \in 1..Len(sas) :
                    Contains(sas[k], Astronomy) \/ Contains(sas[k], Postcode)}
    IN  IF hits # {}
        THEN [is |-> TRUE,
              meta |-> <<(CHOOSE k \in hits : \A q \in hits : k <= q) - 1,
                         author, aff>>]
        ELSE [is |-> FALSE, meta |-> <<>>]

\* (is_matching_author, meta); meta = [j, author, aff] with j the 0-based
\* index of the first sub-affiliation that passes the test
matching_author(author, aff) ==
    LET sas == strip_affiliations(aff)
        hits == {k \in 1..Len(sas) : IsRSAA(sas[k])}
    IN  IF hits # {}
        THEN [is |-> TRUE,
              meta |-> <<(CHOOSE k \in hits : \A q \in hits : k <= q) - 1,
                         author, aff>>]
        ELSE [is |-> FALSE, meta |-> <<>>]

format_author(author, aff) ==
    IF matching_author(author, aff).is
    THEN <<"*">> \o Upper(author) \o <<"*">>
    ELSE author

(***************************************************************************)
(* The summary formatter                                                   *)
(***************************************************************************)
long_author_list_default == 50

Ellipsis == <<".",".",".">>
EtAl == <<"e","t"," ","a","l",".">>
SepAuthors == <<";"," ">>
NotShown == <<" ","a","u","t","h","o","r","s"," ","n","o","t"," ","s","h","o","w","n",")">>

\* zip(article.author, article.aff) stops at the shorter list
ZipLen(article) ==
    IF Len(article.author) <= Len(article.aff)
    THEN Len(article.author) ELSE Len(article.aff)

\* faulty variant: skip is not reset after a matching author
LoopBody_keep_skip(article, p, st) ==
    LET author == article.author[p]
        aff == article.aff[p]
    IN  IF p - 1 < 1
        THEN [st EXCEPT !.authors = Append(@, format_author(author, aff))]
        ELSE IF matching_author(author, aff).is
        THEN [st EXCEPT
                 !.authors = (IF st.skip > 0 THEN Append(@, Ellipsis) ELSE @)
                               \o <<format_author(author, aff)>>]
        ELSE [st EXCEPT !.skip = @ + 1, !.total_skip = @ + 1]

\* lines 94-108: the loop body for the author at position p, on the
\* locals st = (authors, skip, total_skip)
LoopBody(article, p, st) ==
    LET author == article.author[p]
        aff == article.aff[p]
    IN  IF p - 1 < 1
        THEN [st EXCEPT !.authors = Append(@, format_author(author, aff))]
        ELSE IF matching_author(author, aff).is
        THEN [st EXCEPT
                 !.authors = (IF st.skip > 0 THEN Append(@, Ellipsis) ELSE @)
                               \o <<format_author(author, aff)>>,
                 !.skip = 0]
        ELSE [st EXCEPT !.skip = @ + 1, !.total_skip = @ + 1]

\* line 93: the loop body over the positions lo..hi in order. The range
\* is walked half by half, and the locals after the first half are
\* computed (the test on skip, which is never negative, reads them)
\* before the second half starts.
RECURSIVE TruncRange(_, _, _, _)
TruncRange(article, lo, hi, st) ==
    IF lo > hi THEN st
    ELSE IF lo = hi THEN LoopBody(article, lo, st)
    ELSE LET mid == (lo + hi) \div 2
             half == TruncRange(article, lo, mid, st)
         IN  IF half.skip >= 0 THEN TruncRange(article, mid + 1, hi, half) ELSE half

TruncLoop(article, p, st) == TruncRange(article, p, ZipLen(article), st)

\* faulty variant: "et al." is appended whatever skip is
formatted_summary_always_et_al(article, long) ==
    IF Len(article.author) > long
    THEN LET st == TruncLoop(article, 1, [authors |-> <<>>, skip |-> 0, total_skip |-> 0])
             authors == Append(st.authors, EtAl)
         IN  [authors |-> authors, total_skip |-> st.total_skip,
              formatted_authors |-> Join(SepAuthors, authors) \o <<" ","(">>
                                      \o Dec(st.total_skip) \o NotShown]
    ELSE LET authors == [p \in 1..ZipLen(article) |->
                            format_author(article.author[p], article.aff[p])]
         IN  [authors |-> authors, total_skip |-> 0,
              formatted_authors |-> Join(SepAuthors, authors)]

\* faulty variant: the counters start at 1, counting the first author
formatted_summary_skip_from_zero(article, long) ==
    IF Len(article.author) > long
    THEN LET st == TruncLoop(article, 1, [authors |-> <<>>, skip |-> 1, total_skip |-> 1])
             authors == IF st.skip > 0 THEN Append(st.authors, EtAl) ELSE st.authors
         IN  [authors |-> authors, total_skip |-> st.total_skip,
              formatted_authors |-> Join(SepAuthors, authors) \o <<" ","(">>
                                      \o Dec(st.total_skip) \o NotShown]
    ELSE LET authors == [p \in 1..ZipLen(article) |->
                            format_author(article.author[p], article.aff[p])]
         IN  [authors |-> authors, total_skip |-> 0,
              formatted_authors |-> Join(SepAuthors, authors)]

\* the author part of the kwds formatted_summary returns: the local list
\* authors, the local total_skip (0 when the list is not truncated) and
\* the string formatted_authors
formatted_summary(article, long) ==
    IF Len(article.author) > long
    THEN LET st == TruncLoop(article, 1, [authors |-> <<>>, skip |-> 0, total_skip |-> 0])
             authors == IF st.skip > 0 THEN Append(st.authors, EtAl) ELSE st.authors
         IN  [authors |-> authors, total_skip |-> st.total_skip,
              formatted_authors |-> Join(SepAuthors, authors) \o <<" ","(">>
                                      \o Dec(st.total_skip) \o NotShown]
    ELSE LET authors == [p \in 1..ZipLen(article) |->
                            format_author(article.author[p], article.aff[p])]
         IN  [authors |-> authors, total_skip |-> 0,
              formatted_authors |-> Join(SepAuthors, authors)]

(***************************************************************************)
(* The record store and the pipeline                                       *)
(***************************************************************************)
MaxArticles == 2
MaxRuns == 2

\* Affiliation strings as the database supplies them
AffRSAA == <<"A","s","t","r","o","n","o","m","y",","," ","2","6","1","1">>
AffANU == <<"A","N","U"," ","2","6","1","1">>
AffSplit == <<"A","s","t","r","o","n","o","m","y",";"," ","2","6","1","1">>

Dec2023 == <<2023, 12>>
Jan2024 == <<2024, 1>>
Windows == {Dec2023, Jan2024}

\* The articles the database may hold. Article 4 has no matching author;
\* articles 1 and 3 both have their first matching author at index 0.
Art(id, author, aff, pubdate) ==
    [id |-> id, title |-> <<"T">> \o Dec(id), bibcode |-> <<"b">> \o Dec(id),
     pubdate |-> pubdate, author |-> author, aff |-> aff]
KnownArticles ==
    { Art(1, << <<"k","i">>, <<"l","u">> >>, <<AffRSAA, AffANU>>, Dec2023),
      Art(2, << <<"m","o">>, <<"n","a">> >>, <<AffANU, AffRSAA>>, Dec2023),
      Art(3, << <<"p","e">> >>, <<AffRSAA>>, Dec2023),
      Art(4, << <<"q","i">>, <<"r","o">> >>, <<AffANU, AffSplit>>, Dec2023),
      Art(5, << <<"s","a">>, <<"t","u">>, <<"v","y">> >>,
             <<AffSplit, AffANU, AffRSAA>>, Jan2024) }

\* sys.argv and datetime.now() as the script may see them
Argvs == { <<"ads-papers-rsaa.py">>, <<"ads-papers-rsaa.py", 2023, 12>> }
Nows == { [year |-> 2024, month |-> 1], [year |-> 2024, month |-> 2] }

\* a file that does not exist, and a table or digest file as written
NoFile == [exists |-> FALSE, rows |-> <<>>]
File(rows) == [exists |-> TRUE, rows |-> rows]

\* the table read from the file, or an empty table when there is no file
load_records(file) == IF file.exists THEN file.rows ELSE <<>>

\* the row of an accepted article; str(title.encode()) is the text b'...'
prepare_record(article, now) ==
    [id |-> article.id, updated |-> now,
     title |-> <<"b","'">> \o article.title \o <<"'">>,
     bibcode |-> article.bibcode, pubdate |-> article.pubdate]

\* year, month from the two arguments, or the month before now
ResolveWindow(argv, now) ==
    IF Len(argv) >= 3 THEN <<argv[2], argv[3]>>
    ELSE IF 1 > now.month - 1 THEN <<now.year - 1, 12>>
    ELSE <<now.year, now.month - 1>>

\* what the search returns for a window: the database's articles of that
\* month, in the database's order
SearchQuery(db, y, m) ==
    LET InWindow(a) == a.pubdate = <<y, m>>
    IN  SelectSeq(db, InWindow)

\* int(article.id) in records["id"]
IdInRecords(id, table) == \E r \in 1..Len(table) : table[r].id = id

\* faulty variant: only the first author is tested
MatchingAuthors_first_only(article) ==
    IF ZipLen(article) >= 1 /\ matching_author(article.author[1], article.aff[1]).is
    THEN << <<0>> \o matching_author(article.author[1], article.aff[1]).meta >>
    ELSE <<>>

\* the list built from map(matching_author, article.author, article.aff):
\* one [i] + meta per matching author, in author order
MatchingAuthors(article) ==
    LET Hit(p) == matching_author(article.author[p], article.aff[p]).is
        idx == SelectSeq([p \in 1..ZipLen(article) |-> p], Hit)
    IN  [k \in 1..Len(idx) |->
            <<idx[k] - 1>> \o
            matching_author(article.author[idx[k]], article.aff[idx[k]]).meta]

\* author_index of one accepted pair
AuthorIndex(na) == IF Len(na.ma) > 0 THEN na.ma[1][1] ELSE 1000

\* The results np.argsort(author_index) can return. The default kind is
\* "quicksort", which numpy documents as not stable: any permutation that
\* puts the keys in ascending order is a possible result.
Argsort(keys) ==
    {perm \in [1..Len(keys) -> 1..Len(keys)] :
        /\ \A a, b \in 1..Len(keys) : a # b => perm[a] # perm[b]
        /\ \A a, b \in 1..Len(keys) : a < b => keys[perm[a]] <= keys[perm[b]]}

\* one digest entry: the fields of EXECUTIVE_SUMMARY_ARTICLE_FORMAT that
\* identify the article, its rank and its author string
SummaryEntry(count, article) ==
    [count |-> count, bibcode |-> article.bibcode, title |-> article.title,
     formatted_authors |->
        formatted_summary(article, long_author_list_default).formatted_authors]

Running == {"filter", "saved", "render", "write"}

PipeInit ==
    /\ pc = "idle"
    /\ disk \in {NoFile, File(<<prepare_record(CHOOSE a \in KnownArticles : a.id = 1, 0)>>)}
    /\ lunations = [w \in Windows |-> NoFile]
    /\ ads = <<>>
    /\ clock = 0
    /\ records = <<>>
    /\ year = 0 /\ month = 0
    /\ articles = <<>>
    /\ i = 0
    /\ new_articles = <<>>
    /\ matching_authors = <<>>
    /\ executive_summary = <<>>
    /\ loaded = <<>>
    /\ rerun = FALSE

NoPure ==
    /\ m_aff = <<>> /\ m_out = <<>>
    /\ f_article = <<>> /\ f_long = 0 /\ f_out = <<>>

\* lines 149-186: read the clock, load the records, resolve the window,
\* submit the query
StartRun ==
    /\ pc \in {"idle", "done", "crashed"}
    /\ clock < MaxRuns
    /\ \E argv \in Argvs, now \in Nows :
         LET w == ResolveWindow(argv, now)
             found == SearchQuery(ads, w[1], w[2])
         IN  /\ year' = w[1]
             /\ month' = w[2]
             /\ articles' = found
             /\ rerun' = (pc = "done" /\ <<year, month>> = w /\ articles = found)
    /\ clock' = clock + 1
    /\ records' = load_records(disk)
    /\ loaded' = load_records(disk)
    /\ i' = 0
    /\ new_articles' = <<>>
    /\ matching_authors' = <<>>
    /\ executive_summary' = <<>>
    /\ pc' = "filter"
    /\ UNCHANGED <<disk, lunations, ads>>

\* lines 195-197
FilterSkipPosted ==
    /\ pc = "filter" /\ i < Len(articles)
    /\ IdInRecords(articles[i + 1].id, records)
    /\ i' = i + 1
    /\ UNCHANGED <<pc, disk, lunations, ads, clock, records, year, month, articles,
                   new_articles, matching_authors, executive_summary, loaded, rerun>>

\* lines 199-209
FilterSkipNoMatch ==
    /\ pc = "filter" /\ i < Len(articles)
    /\ ~IdInRecords(articles[i + 1].id, records)
    /\ matching_authors' = MatchingAuthors(articles[i + 1])
    /\ Len(matching_authors') = 0
    /\ i' = i + 1
    /\ UNCHANGED <<pc, disk, lunations, ads, clock, records, year, month, articles,
                   new_articles, executive_summary, loaded, rerun>>

\* faulty variant: the article is retained but no row is added
AcceptWithoutRecord(article) ==
    /\ new_articles' = Append(new_articles, [article |-> article, ma |-> matching_authors'])
    /\ records' = records

\* lines 211-213
Accept(article) ==
    /\ new_articles' = Append(new_articles, [article |-> article, ma |-> matching_authors'])
    /\ records' = Append(records, prepare_record(article, clock))

\* lines 199-213
FilterAccept ==
    /\ pc = "filter" /\ i < Len(articles)
    /\ ~IdInRecords(articles[i + 1].id, records)
    /\ matching_authors' = MatchingAuthors(articles[i + 1])
    /\ Len(matching_authors') # 0
    /\ Accept(articles[i + 1])
    /\ i' = i + 1
    /\ UNCHANGED <<pc, disk, lunations, ads, clock, year, month, articles,
                   executive_summary, loaded, rerun>>

\* faulty variant: only the rows of this run are written
Persist_only_new ==
    /\ pc = "filter" /\ i = Len(articles)
    /\ disk' = File(SubSeq(records, Len(loaded) + 1, Len(records)))
    /\ pc' = "saved"
    /\ UNCHANGED <<lunations, ads, clock, records, year, month, articles, i,
                   new_articles, matching_authors, executive_summary, loaded, rerun>>

\* lines 215-219: the loop is over; the table overwrites records.csv
Persist ==
    /\ pc = "filter" /\ i = Len(articles)
    /\ disk' = File(records)
    /\ pc' = "saved"
    /\ UNCHANGED <<lunations, ads, clock, records, year, month, articles, i,
                   new_articles, matching_authors, executive_summary, loaded, rerun>>

\* faulty variant: the script goes on to the digest with nothing accepted
ShortCircuit_renders ==
    /\ pc = "saved" /\ Len(new_articles) = 0
    /\ pc' = "render"
    /\ UNCHANGED <<disk, lunations, ads, clock, records, year, month, articles, i,
                   new_articles, matching_authors, executive_summary, loaded, rerun>>

\* lines 221-222
ShortCircuit ==
    /\ pc = "saved" /\ Len(new_articles) = 0
    /\ pc' = "done"
    /\ UNCHANGED <<disk, lunations, ads, clock, records, year, month, articles, i,
                   new_articles, matching_authors, executive_summary, loaded, rerun>>

\* lines 225-234
Order ==
    /\ pc = "saved" /\ Len(new_articles) # 0
    /\ \E na_indices \in Argsort([k \in 1..Len(new_articles) |-> AuthorIndex(new_articles[k])]) :
         new_articles' = [k \in 1..Len(new_articles) |-> new_articles[na_indices[k]]]
    /\ pc' = "render"
    /\ UNCHANGED <<disk, lunations, ads, clock, records, year, month, articles, i,
                   matching_authors, executive_summary, loaded, rerun>>

\* lines 236-246
Render ==
    /\ pc = "render"
    /\ executive_summary' =
         [k \in 1..Len(new_articles) |-> SummaryEntry(k, new_articles[k].article)]
    /\ pc' = "write"
    /\ UNCHANGED <<disk, lunations, ads, clock, records, year, month, articles, i,
                   new_articles, matching_authors, loaded, rerun>>

\* lines 248-250
Write ==
    /\ pc = "write"
    /\ lunations' = [lunations EXCEPT ![<<year, month>>] = File(executive_summary)]
    /\ pc' = "done"
    /\ UNCHANGED <<disk, ads, clock, records, year, month, articles, i,
                   new_articles, matching_authors, executive_summary, loaded, rerun>>

\* An unhandled exception (the search fails, a file cannot be written)
\* ends the process where it stands; nothing catches it.
Crash ==
    /\ pc \in Running
    /\ pc' = "crashed"
    /\ UNCHANGED <<disk, lunations, ads, clock, records, year, month, articles, i,
                   new_articles, matching_authors, executive_summary, loaded, rerun>>

\* The database gains an article between two runs (the search is an
\* external collaborator; its content is not under the script's control).
ADSUpdate ==
    /\ pc \in {"idle", "done", "crashed"}
    /\ Len(ads) < MaxArticles
    /\ \E a \in KnownArticles : ads' = Append(ads, a)
    /\ UNCHANGED <<pc, disk, lunations, clock, records, year, month, articles, i,
                   new_articles, matching_authors, executive_summary, loaded, rerun>>

Init == PipeInit /\ NoPure

Next ==
    \/ (StartRun /\ UNCHANGED <<matchvars, fmtvars>>)
    \/ (FilterSkipPosted /\ UNCHANGED <<matchvars, fmtvars>>)
    \/ (FilterSkipNoMatch /\ UNCHANGED <<matchvars, fmtvars>>)
    \/ (FilterAccept /\ UNCHANGED <<matchvars, fmtvars>>)
    \/ (Persist /\ UNCHANGED <<matchvars, fmtvars>>)
    \/ (ShortCircuit /\ UNCHANGED <<matchvars, fmtvars>>)
    \/ (Order /\ UNCHANGED <<matchvars, fmtvars>>)
    \/ (Render /\ UNCHANGED <<matchvars, fmtvars>>)
    \/ (Write /\ UNCHANGED <<matchvars, fmtvars>>)
    \/ (Crash /\ UNCHANGED <<matchvars, fmtvars>>)
    \/ (ADSUpdate /\ UNCHANGED <<matchvars, fmtvars>>)

Spec == Init /\ [][Next]_vars

(***************************************************************************)
(* matching_author applied to drawn affiliation strings                    *)
(***************************************************************************)
MaxChunks == 3

\* Pieces an affiliation string is assembled from: the two tokens whole,
\* in capitals, cut in two, cut by a comma, and the characters the
\* matcher treats specially
Chunks ==
    { <<"A","s","t","r","o","n","o","m","y">>, <<"A","S","T","R","O">>,
      <<"n","o","m","y">>, <<"2","6","1","1">>, <<"2","6">>, <<"1","1">>,
      <<"2","6",",","1","1">>, <<",">>, <<":">>, <<";">>, AmpEntity, <<" ">> }

RECURSIVE AffStrings(_)
AffStrings(n) ==
    IF n = 0 THEN {<<>>}
    ELSE LET shorter == AffStrings(n - 1)
         IN  shorter \cup {s \o c : s \in shorter, c \in Chunks}

MatchAuthor == <<"B","u","d","e","r",","," ","S">>

MatchInit ==
    /\ m_aff \in AffStrings(MaxChunks)
    /\ m_out = <<>>
    /\ f_article = <<>> /\ f_long = 0 /\ f_out = <<>>
    /\ PipeInit /\ disk = NoFile

ApplyMatch ==
    /\ m_out = <<>>
    /\ m_out' = <<matching_author(MatchAuthor, m_aff)>>
    /\ UNCHANGED <<m_aff, fmtvars, pipevars>>

MatchNext == ApplyMatch

SpecMatch == MatchInit /\ [][MatchNext]_vars

(***************************************************************************)
(* formatted_summary applied to drawn articles                             *)
(***************************************************************************)
MaxAuthors == 4
MaxSmallLong == 2

\* the thresholds tried: small ones, where every author pattern up to
\* MaxAuthors is drawn, and the default
Thresholds == (0..MaxSmallLong) \cup {long_author_list_default}

RECURSIVE Patterns(_)
Patterns(n) ==
    IF n = 0 THEN {<<>>}
    ELSE LET shorter == Patterns(n - 1)
         IN  shorter \cup {Append(q, b) : q \in shorter, b \in BOOLEAN}

\* a pattern of n authors: a drawn prefix, non-matching authors after it,
\* and a last author who matches or not
LongPattern(prefix, n, last) ==
    [p \in 1..n |-> IF p <= Len(prefix) THEN prefix[p]
                    ELSE IF p = n THEN last ELSE FALSE]

\* the 60 authors of whom those at indices 0, 5 and 12 match
SixtyPattern == [p \in 1..60 |-> p \in {1, 6, 13}]

AuthorPatterns ==
    Patterns(MaxAuthors)
    \cup {LongPattern(q, n, b) :
             q \in Patterns(MaxAuthors),
             n \in {long_author_list_default, long_author_list_default + 1},
             b \in BOOLEAN}
    \cup {SixtyPattern}

\* the author at index p - 1 is named "a<index>"
AuthorName(p) == <<"a">> \o Dec(p - 1)

PatternArticle(pattern) ==
    [author |-> [p \in 1..Len(pattern) |-> AuthorName(p)],
     aff |-> [p \in 1..Len(pattern) |->
                 IF pattern[p] THEN AffRSAA
                 ELSE IF p % 2 = 0 THEN AffANU ELSE AffSplit]]

FmtInit ==
    /\ f_article \in {PatternArticle(q) : q \in AuthorPatterns}
    /\ f_long \in Thresholds
    /\ f_out = <<>>
    /\ m_aff = <<>> /\ m_out = <<>>
    /\ PipeInit /\ disk = NoFile

ApplyFormat ==
    /\ f_out = <<>>
    /\ f_out' = <<formatted_summary(f_article, f_long)>>
    /\ UNCHANGED <<f_article, f_long, matchvars, pipevars>>

FmtNext == ApplyFormat

SpecFmt == FmtInit /\ [][FmtNext]_vars

(***************************************************************************)
(* Properties of matching_author (checked under SpecMatch)                 *)
(***************************************************************************)
NotCommaColon(c) == c \notin {",", ":"}

\* the whole string, entities decoded, commas and colons dropped, lowercased
WholeNormalised(aff) == Lower(SelectSeq(Replace(aff, AmpEntity, Amp), NotCommaColon))

\* the stretches a..b of d that hold no ";" and are bounded by ";" or an end
SubAffBounds(d) ==
    {ab \in (1..(Len(d) + 1)) \X (0..Len(d)) :
        /\ ab[1] <= ab[2] + 1
        /\ \A k \in ab[1]..ab[2] : d[k] # ";"
        /\ (ab[1] = 1 \/ d[ab[1] - 1] = ";")
        /\ (ab[2] = Len(d) \/ d[ab[2] + 1] = ";")}

SubAffHasBoth(d, ab) ==
    LET text == Lower(SelectSeq(SubSeq(d, ab[1], ab[2]), NotCommaColon))
    IN  Contains(text, Astronomy) /\ Contains(text, Postcode)

\* how many ";" precede position a: the 0-based index of the stretch
SubAffIndex(d, a) == Cardinality({k \in 1..(a - 1) : d[k] = ";"})

\* C2 as stated: matching_author is the two-token containment test on the
\* whole affiliation string (case, commas, colons and &amp; aside): True
\* when the string holds both "astronomy" and "2611", wherever they sit,
\* and False when it lacks either.
C2_WholeStringTest ==
    m_out # <<>> =>
        (m_out[1].is <=>
            (/\ Contains(WholeNormalised(m_aff), Astronomy)
             /\ Contains(WholeNormalised(m_aff), Postcode)))

\* C2 amended: matching_author returns True exactly when one ";"-separated
\* sub-affiliation (split after &amp; is decoded), with its commas and
\* colons removed and lowercased, holds both "astronomy" and "2611"; meta
\* is then the 0-based index of the first such sub-affiliation, the author
\* and the raw affiliation string, and is empty otherwise.
C2_PerSubAffiliation ==
    m_out # <<>> =>
        LET d == Replace(m_aff, AmpEntity, Amp)
            good == {ab \in SubAffBounds(d) : SubAffHasBoth(d, ab)}
        IN  /\ m_out[1].is <=> (good # {})
            /\ m_out[1].is =>
                 /\ Len(m_out[1].meta) = 3
                 /\ \E ab \in good :
                      /\ m_out[1].meta[1] = SubAffIndex(d, ab[1])
                      /\ \A other \in good : ab[1] <= other[1]
                 /\ m_out[1].meta[2] = MatchAuthor
                 /\ m_out[1].meta[3] = m_aff
            /\ ~m_out[1].is => m_out[1].meta = <<>>

\* the second sub-affiliation matches, and its postal code only appears
\* once a comma is removed
C2_Witness ==
    /\ m_out # <<>>
    /\ m_out[1].is
    /\ m_out[1].meta[1] = 1
    /\ ~Contains(m_aff, Postcode)

(***************************************************************************)
(* Properties of formatted_summary (checked under SpecFmt)                 *)
(***************************************************************************)
Truncated == f_out # <<>> /\ Len(f_article.author) > f_long

Matches(p) == matching_author(f_article.author[p], f_article.aff[p]).is

\* how the author at position p is displayed
Display(p) ==
    IF Matches(p) THEN <<"*">> \o Upper(f_article.author[p]) \o <<"*">>
    ELSE f_article.author[p]

IsIncluded(p) == p = 1 \/ Matches(p)
IncludedPositions ==
    SelectSeq([p \in 1..Len(f_article.author) |-> p], IsIncluded)

NotMarker(e) == e # Ellipsis /\ e # EtAl

EndsWith(s, t) == Len(s) >= Len(t) /\ SubSeq(s, Len(s) - Len(t) + 1, Len(s)) = t

Parenthetical(n) == <<" ","(">> \o Dec(n) \o NotShown

\* C3: for an article with more authors than the threshold, the entries
\* of the author string other than "..." and "et al." are the author at
\* index 0 and the matching authors at index >= 1, in the original order
\* and no others, and the number in "(N authors not shown)" is the author
\* count minus the number of authors included.
C3_IncludedAuthorsAndCount ==
    Truncated =>
        LET out == f_out[1]
            shown == SelectSeq(out.authors, NotMarker)
            inc == IncludedPositions
        IN  /\ Len(shown) = Len(inc)
            /\ \A k \in 1..Len(inc) : shown[k] = Display(inc[k])
            /\ out.total_skip = Len(f_article.author) - Len(inc)
            /\ out.formatted_authors =
                 Join(SepAuthors, out.authors)
                   \o Parenthetical(Len(f_article.author) - Len(inc))

\* the 60 authors with matches at indices 0, 5 and 12, default threshold
C3_Witness ==
    /\ Truncated
    /\ f_long = long_author_list_default
    /\ Len(f_article.author) = 60
    /\ IncludedPositions = <<1, 6, 13>>
    /\ f_out[1].total_skip = 57

\* C4 as stated: for an article with more authors than the threshold the
\* author string always ends with an "et al." entry followed by the
\* parenthetical, also when the last-listed author matches.
C4_AlwaysEtAl ==
    Truncated =>
        LET out == f_out[1]
        IN  /\ out.authors[Len(out.authors)] = EtAl
            /\ EndsWith(out.formatted_authors,
                        SepAuthors \o EtAl \o Parenthetical(out.total_skip))

\* C4 amended: for an article with more authors than the threshold the
\* author string always ends with the parenthetical, and the entry before
\* the parenthetical is "et al." exactly when the last-listed author is
\* at index >= 1 and does not match; otherwise (the last author matches,
\* or the first author is the only one) it is the last included author.
\* "et al." appears nowhere else.
C4_EtAlIffTrailingOmitted ==
    Truncated =>
        LET out == f_out[1]
            n == Len(f_article.author)
            last == Len(out.authors)
            trailing == n >= 2 /\ ~Matches(n)
        IN  /\ last >= 1
            /\ EndsWith(out.formatted_authors, Parenthetical(out.total_skip))
            /\ (out.authors[last] = EtAl) <=> trailing
            /\ ~trailing => out.authors[last] = Display(n)
            /\ \A k \in 1..(last - 1) : out.authors[k] # EtAl
            /\ trailing =>
                 EndsWith(out.formatted_authors,
                          SepAuthors \o EtAl \o Parenthetical(out.total_skip))

\* more than 50 authors, the last one matches: no "et al."
C4_Witness ==
    /\ Truncated
    /\ f_long = long_author_list_default
    /\ Matches(Len(f_article.author))
    /\ f_out[1].authors[Len(f_out[1].authors)] = Display(Len(f_article.author))
    /\ f_out[1].total_skip > 0

\* the position of the entry of the included author at position p
EntryOf(p) == CHOOSE k \in 1..Len(f_out[1].authors) : f_out[1].authors[k] = Display(p)

\* a matching author at index >= 2 whose predecessor (index >= 1) does not match
AfterGap(p) == p >= 3 /\ Matches(p) /\ ~Matches(p - 1)

\* C10: in a truncated author list there is exactly one "..." for each
\* maximal run of non-matching authors (index >= 1) that a matching
\* author follows, placed directly before that author; no two "..." are
\* adjacent, none stands between the entries of two authors adjacent in
\* the article, and the final run of non-matching authors gives "et al."
\* and no "...".
C10_EllipsisPlacement ==
    Truncated =>
        LET E == f_out[1].authors
            n == Len(f_article.author)
            dots == {k \in 1..Len(E) : E[k] = Ellipsis}
            gaps == {p \in 1..n : AfterGap(p)}
        IN  /\ Cardinality(dots) = Cardinality(gaps)
            /\ \A p \in gaps : EntryOf(p) >= 2 /\ E[EntryOf(p) - 1] = Ellipsis
            /\ \A k \in dots :
                 /\ k < Len(E)
                 /\ \E p \in gaps : EntryOf(p) = k + 1
                 /\ k >= 2 /\ E[k - 1] # Ellipsis
            /\ \A p \in 1..(n - 1) :
                 (IsIncluded(p) /\ Matches(p + 1)) => EntryOf(p + 1) = EntryOf(p) + 1
            /\ (n >= 2 /\ ~Matches(n)) =>
                 /\ E[Len(E)] = EtAl
                 /\ E[Len(E) - 1] # Ellipsis

\* more than 50 authors: two matching authors side by side after a first
\* gap, then a long gap before the matching last author; two "..."
C10_Witness ==
    /\ Truncated
    /\ f_long = long_author_list_default
    /\ Cardinality({k \in 1..Len(f_out[1].authors) : f_out[1].authors[k] = Ellipsis}) = 2
    /\ \E p \in 3..(Len(f_article.author) - 1) :
         ~Matches(p - 1) /\ Matches(p) /\ Matches(p + 1)

(***************************************************************************)
(* Properties of the pipeline (checked under Spec)                         *)
(***************************************************************************)
\* some (author, affiliation) pair of the article matches
HasMatch(a) ==
    \E p \in 1..Len(a.author) : matching_author(a.author[p], a.aff[p]).is

\* the index of the first matching author of an article that has one
FirstMatchIndex(a) ==
    (CHOOSE p \in 1..Len(a.author) :
        /\ matching_author(a.author[p], a.aff[p]).is
        /\ \A q \in 1..(p - 1) : ~matching_author(a.author[q], a.aff[q]).is) - 1

\* the rows this run added to the in-memory table
RowsOfThisRun == SubSeq(records, Len(loaded) + 1, Len(records))

NoRepeatedId(table) ==
    \A r1, r2 \in 1..Len(table) : r1 # r2 => table[r1].id # table[r2].id

\* an examined position whose article is new to the loaded table, has a
\* matching author and did not arrive earlier in the same result
NewlyAcceptedAt(p) ==
    /\ HasMatch(articles[p])
    /\ \A r \in 1..Len(loaded) : loaded[r].id # articles[p].id
    /\ \A q \in 1..(p - 1) : articles[q].id # articles[p].id

\* C1: a run that follows a completed run on the same window, with the
\* same query result and the record file that run left, accepts nothing:
\* new_articles stays empty, no row is appended, the digest steps are
\* never reached.
C1_SecondRunAcceptsNothing ==
    rerun =>
        /\ new_articles = <<>>
        /\ records = loaded
        /\ pc \notin {"render", "write"}
        /\ pc \in {"saved", "done"} => disk = File(loaded)

\* the repeated run is over, and its result held an article that the run
\* before it had accepted and reported
C1_Witness ==
    /\ rerun
    /\ pc = "done"
    /\ lunations[<<year, month>>].exists
    /\ \E r \in 1..Len(disk.rows), p \in 1..Len(articles) :
         disk.rows[r].updated = clock - 1 /\ disk.rows[r].id = articles[p].id

\* Ascending order of the first matching author's index, consecutive
\* ranks from 1, nothing lost or duplicated: the part of the digest order
\* that holds whatever np.argsort does with equal keys.
DigestSortedAndRanked ==
    (pc = "write" \/ (pc = "done" /\ new_articles # <<>>)) =>
        /\ Len(executive_summary) = Len(new_articles)
        /\ Len(new_articles) = Len(RowsOfThisRun)
        /\ {new_articles[k].article.id : k \in 1..Len(new_articles)}
             = {RowsOfThisRun[r].id : r \in 1..Len(RowsOfThisRun)}
        /\ \A k \in 1..Len(new_articles) :
             /\ executive_summary[k].count = k
             /\ executive_summary[k].bibcode = new_articles[k].article.bibcode
        /\ \A a, b \in 1..Len(new_articles) :
             a < b => FirstMatchIndex(new_articles[a].article)
                        <= FirstMatchIndex(new_articles[b].article)

\* the position, among the rows of this run, of the row of an article:
\* its arrival order among the accepted articles
ArrivalRank(a) == CHOOSE r \in 1..Len(RowsOfThisRun) : RowsOfThisRun[r].id = a.id

\* C5: the accepted articles are rendered with ranks 1..n in ascending
\* order of the index of their first matching author, articles with the
\* same index in their arrival order, and the rendered list is a
\* permutation of the accepted list.
C5_StableRankedOrder ==
    /\ DigestSortedAndRanked
    /\ (pc = "write" \/ (pc = "done" /\ new_articles # <<>>)) =>
         \A a, b \in 1..Len(new_articles) :
            (/\ a < b
             /\ FirstMatchIndex(new_articles[a].article)
                  = FirstMatchIndex(new_articles[b].article))
            => ArrivalRank(new_articles[a].article) < ArrivalRank(new_articles[b].article)

\* some digest file holds an entry for the bibcode
InSomeDigest(bibcode) ==
    \E w \in Windows :
        /\ lunations[w].exists
        /\ \E e \in 1..Len(lunations[w].rows) : lunations[w].rows[e].bibcode = bibcode

\* C6: whenever a run has stopped, by completion or by a failure at any
\* step, every row of the record file for an article accepted in that
\* run has its article in a written digest.
C6_RecordsAtomicWithDigest ==
    pc \in {"done", "crashed"} =>
        \A r \in 1..Len(disk.rows) :
            disk.rows[r].updated = clock => InSomeDigest(disk.rows[r].bibcode)

\* C7: the table only grows at its end. The loaded rows stay, unchanged
\* and in place, in the table and in the file; the rows a run adds are
\* one per accepted article, in arrival order; no id occurs twice, also
\* when the query result repeats an article.
C7_AppendOnlyOneRowPerAccepted ==
    LET accepted == SelectSeq([p \in 1..i |-> p], NewlyAcceptedAt)
    IN  /\ Len(records) >= Len(loaded)
        /\ SubSeq(records, 1, Len(loaded)) = loaded
        /\ Len(disk.rows) >= Len(loaded)
        /\ SubSeq(disk.rows, 1, Len(loaded)) = loaded
        /\ pc \in {"saved", "render", "write", "done"} => disk = File(records)
        /\ Len(RowsOfThisRun) = Len(accepted)
        /\ Len(RowsOfThisRun) = Len(new_articles)
        /\ \A k \in 1..Len(accepted) :
             RowsOfThisRun[k] =
                [id |-> articles[accepted[k]].id,
                 updated |-> clock,
                 title |-> <<"b","'">> \o articles[accepted[k]].title \o <<"'">>,
                 bibcode |-> articles[accepted[k]].bibcode,
                 pubdate |-> articles[accepted[k]].pubdate]
        /\ NoRepeatedId(records)
        /\ NoRepeatedId(disk.rows)

\* a finished run whose result held the same new article twice, on a
\* table that already had a row: one row was added behind the old one
C7_Witness ==
    /\ pc = "done"
    /\ Len(loaded) = 1
    /\ Len(articles) = 2
    /\ articles[1].id = articles[2].id
    /\ disk = File(Append(loaded, prepare_record(articles[1], clock)))

\* C8: the record file is written when the filter loop ends, whatever was
\* accepted. A run that accepted nothing then ends successfully, the file
\* holding exactly the loaded rows (an empty table if there was no file),
\* and no digest file is created or changed by it; a run that accepted
\* articles ends by writing the digest of its (year, month), one entry
\* per accepted article, and touches no other digest.
C8_EmptyRunWritesNoDigest ==
    [][ /\ (lunations' # lunations) => (pc = "write" /\ new_articles # <<>>)
        /\ (pc = "filter" /\ pc' = "saved") => disk' = File(records)
        /\ (pc # "done" /\ pc' = "done") =>
             IF new_articles = <<>>
             THEN /\ pc = "saved"
                  /\ disk = File(loaded)
                  /\ disk' = disk
                  /\ lunations' = lunations
             ELSE /\ pc = "write"
                  /\ lunations'[<<year, month>>].exists
                  /\ Len(lunations'[<<year, month>>].rows) = Len(RowsOfThisRun)
                  /\ \A r \in 1..Len(RowsOfThisRun) :
                       Cardinality({e \in 1..Len(lunations'[<<year, month>>].rows) :
                          lunations'[<<year, month>>].rows[e].bibcode
                             = RowsOfThisRun[r].bibcode}) = 1
                  /\ \A w \in Windows \ {<<year, month>>} : lunations'[w] = lunations[w]
      ]_vars

\* a finished run on a missing record file whose articles all lacked a
\* matching author: an empty table on disk, no digest
C8_Witness ==
    /\ pc = "done"
    /\ Len(articles) > 0
    /\ new_articles = <<>>
    /\ loaded = <<>>
    /\ disk = File(<<>>)
    /\ \A w \in Windows : ~lunations[w].exists

\* C9: each step of the filter loop examines the next article in arrival
\* order and accepts it exactly when its id is not in the table at that
\* moment and one of its (author, affiliation) pairs matches: it is then
\* retained with its matching authors and a row is appended. Otherwise
\* nothing is retained or recorded, and an article already in the table
\* is passed over before the matcher runs (matching_authors is not
\* recomputed). The files are not touched.
C9_FilterRule ==
    [][ (pc = "filter" /\ i' # i) =>
          LET a == articles[i + 1]
              posted == \E r \in 1..Len(records) : records[r].id = a.id
              accept == ~posted /\ HasMatch(a)
          IN  /\ i' = i + 1
              /\ accept =>
                   /\ Len(new_articles') = Len(new_articles) + 1
                   /\ SubSeq(new_articles', 1, Len(new_articles)) = new_articles
                   /\ new_articles'[Len(new_articles')].article = a
                   /\ {new_articles'[Len(new_articles')].ma[k][1] + 1 :
                         k \in 1..Len(new_articles'[Len(new_articles')].ma)}
                        = {p \in 1..Len(a.author) :
                              matching_author(a.author[p], a.aff[p]).is}
                   /\ Len(records') = Len(records) + 1
                   /\ SubSeq(records', 1, Len(records)) = records
                   /\ records'[Len(records')].id = a.id
              /\ ~accept => (new_articles' = new_articles /\ records' = records)
              /\ posted => matching_authors' = matching_authors
              /\ (~posted /\ ~HasMatch(a)) => matching_authors' = <<>>
              /\ disk' = disk /\ lunations' = lunations
      ]_vars

\* the first article of the result was accepted and its repetition, now in
\* the table, was passed over
C9_Witness ==
    /\ pc = "filter"
    /\ i = 2
    /\ articles[1].id = articles[2].id
    /\ Len(new_articles) = 1
    /\ Len(records) = Len(loaded) + 1
    /\ matching_authors # <<>>

====
